---- MODULE Spec2Model ----
(***************************************************************************)
(* js-logtail: the LogTail class (src/logtail.js, lines 335-720), a poller *)
(* that tails a remote log file with HTTP range requests.                  *)
(*                                                                         *)
(* JavaScript runs a handler to completion between two awaits, so one      *)
(* action is the code run from an entry point (an external call, a timer   *)
(* firing, a response arriving) up to the next point where the code waits  *)
(* for the transport.  Strings are sequences of one-character strings.     *)
(* The fields _paused, _loading, _firstLoad and _mustGet206 are only ever  *)
(* read for their truthiness; their initial value undefined is FALSE here. *)
(* The debug option is off (its default), and listeners do not throw.      *)
(* Of the custom element that comes first in the file (lines 1-334) only   *)
(* the merge of a later load into its buffer is modelled.                  *)
(***************************************************************************)
EXTENDS Integers, Sequences, FiniteSets

VARIABLES
  pause,          \* the own property 'pause' the constructor copies from the options
  _paused,        \* set by the 'paused' setter only
  _loading,
  _logFileSize,   \* UndefinedSize until a response set it
  _logData,       \* UndefinedData until the first merge
  _firstLoad,
  _mustGet206,
  _loadBytes,
  _pollInterval,
  _url,
  assigned,       \* the last assignment to loadBytes, pollInterval or url, and how it ended
  _timeout,       \* the timer handle poll() stored last: "undefined", "pending", "expired"
  orphans,        \* pending timers _timeout no longer refers to
  inflight,       \* transport calls awaiting their outcome, oldest first
  lastCall,       \* the handler that ran last and how it ended
  emitted,        \* what the last handler passed to emit(), in order
  scheduled,      \* the delays the last handler passed to setTimeout, in order
  fetched,        \* the transport calls the last handler issued, in order
  received,       \* the transport outcome the last handler was resumed with, if any
  _listeners,     \* for each event name, the callbacks registered, in order
  listenerCall,   \* the last call of on, off or emit, and what it did
  element,        \* the custom element: its logData and load, and the data merged last
  file            \* the remote file, where the server is one that honors ranges

vars == <<pause, _paused, _loading, _logFileSize, _logData, _firstLoad, _mustGet206,
          _loadBytes, _pollInterval, _url, assigned, _timeout, orphans, inflight,
          lastCall, emitted, scheduled, fetched, received, _listeners, listenerCall,
          element, file>>

(***************************************************************************)
(* Bounds of the model.                                                    *)
(***************************************************************************)
MaxSize == 2        \* the largest size a header reports
MaxBody == 2        \* the longest response body
MaxLogData == 3     \* the remote file stops growing once the buffer holds this much
MaxTimers == 2      \* external poll() calls stop once this many timers are pending
SmallLoadBytes == 1 \* the loadBytes option of the sessions constructed with one
MaxListeners == 2   \* on() is not called for an event that has this many listeners
MaxOption == 2      \* the largest integer a caller assigns to loadBytes or pollInterval
MaxFile == 3        \* the remote file stops growing at this length
MaxLoad == 3        \* the largest load of the custom element

(***************************************************************************)
(* Program constants.                                                      *)
(***************************************************************************)
DefaultLoadBytes == 30720
DefaultPollInterval == 1000
DefaultUrl == "/logs"
UndefinedSize == -1
UndefinedData == <<"undefined">>

Chars == {"a", "\n"}

RECURSIVE StringsUpTo(_)
StringsUpTo(n) ==
  IF n = 0 THEN {<<>>}
  ELSE LET shorter == StringsUpTo(n - 1)
       IN  shorter \cup {Append(s, c) : s \in {t \in shorter : Len(t) = n - 1}, c \in Chars}

Bodies == StringsUpTo(MaxBody)

\* String(value) as the += of getLog coerces it.
StringOf(data) ==
  IF data = UndefinedData THEN <<"u", "n", "d", "e", "f", "i", "n", "e", "d">> ELSE data

\* data.substring(1)
Substring1(data) == IF Len(data) <= 1 THEN <<>> ELSE SubSeq(data, 2, Len(data))

(***************************************************************************)
(* Headers.  A header is absent, or holds text that is all digits (n is    *)
(* its value) or is not.  headers.get of an absent header is null.         *)
(***************************************************************************)
NoHeader == [present |-> FALSE, digits |-> FALSE, n |-> 0]
BadHeader == [present |-> TRUE, digits |-> FALSE, n |-> 0]
NumHeader(k) == [present |-> TRUE, digits |-> TRUE, n |-> k]
Headers == {NoHeader, BadHeader} \cup {NumHeader(k) : k \in 0..MaxSize}

\* parseInt2 throws TypeError unless the value matches /^[0-9]+$/ ("null" does not).
ParseInt2Throws(h) == ~h.digits

Response(status, contentRange, contentLength, body) ==
  [rejected |-> FALSE, status |-> status, contentRange |-> contentRange,
   contentLength |-> contentLength, body |-> body]

Rejected == [rejected |-> TRUE, status |-> 0, contentRange |-> NoHeader,
             contentLength |-> NoHeader, body |-> <<>>]

\* The outcomes of the GET request: the fetch rejects, or the server answers.  A
\* Content-Length is absent, not a number, or the body's length; a 206 carries
\* any Content-Range, a 416 a Content-Range or none.
GetResponses ==
  {Rejected}
  \cup UNION {{Response(206, cr, cl, body) :
                  cr \in Headers, cl \in {NoHeader, NumHeader(Len(body))}} : body \in Bodies}
  \cup UNION {{Response(200, NoHeader, cl, body) :
                  cl \in {NoHeader, BadHeader, NumHeader(Len(body))}} : body \in Bodies}
  \cup {Response(416, cr, NoHeader, <<>>) : cr \in {NoHeader, BadHeader, NumHeader(0)}}
  \cup {Response(500, NoHeader, NoHeader, <<>>)}

\* The outcomes of the HEAD request: the fetch rejects, or the server answers
\* with or without a Content-Length.
HeadResponses ==
  {Rejected}
  \cup {Response(200, NoHeader, cl, <<>>) : cl \in {NoHeader} \cup {NumHeader(k) : k \in 0..MaxSize}}
  \cup {Response(500, NoHeader, NoHeader, <<>>)}

\* response.ok
Ok(r) == r.status >= 200 /\ r.status <= 299

(***************************************************************************)
(* Getters.                                                                *)
(***************************************************************************)
paused == _paused
loading == _loading
loadBytes == _loadBytes
pollInterval == _pollInterval

\* get logFileSize: this._logFileSize || null.  hasSize is the truthiness of the
\* result; a null result counts 0 in a comparison and has no toString.
hasSize(size) == size # UndefinedSize /\ size # 0
logFileSize(size) == IF hasSize(size) THEN size ELSE 0

(***************************************************************************)
(* Ranges and transport calls.                                             *)
(***************************************************************************)
SuffixRange(n) == [kind |-> "suffix", n |-> n]   \* '-n'
FromRange(n) == [kind |-> "from", n |-> n]       \* 'n-'
HeadRequest == [method |-> "HEAD", range |-> SuffixRange(0)]
GetRequest(range) == [method |-> "GET", range |-> range]

(***************************************************************************)
(* Results of the asynchronous helpers: error is "none" or the class of    *)
(* the error thrown, size the value of _logFileSize the helper leaves.     *)
(***************************************************************************)
Threw(kind, size) == [error |-> kind, size |-> size, text |-> <<>>]
Returned(size, text) == [error |-> "none", size |-> size, text |-> text]

\* requestLogSize, from the outcome of its fetch on: every error thrown inside
\* the try, the two it throws itself included, is caught and wrapped.
requestLogSize(r) ==
  IF r.rejected THEN Threw("HeadRequestError", UndefinedSize)
  ELSE IF Ok(r)
    THEN IF ~r.contentLength.present
           THEN Threw("HeadRequestError", UndefinedSize)  \* wraps MissingContentLengthHeaderError
           ELSE Returned(r.contentLength.n, <<>>)
    ELSE Threw("HeadRequestError", UndefinedSize)         \* wraps UnexpectedServerResponseError

\* getRange with a known size: the anchor range; text is unused.
AnchorRange(size) == FromRange(logFileSize(size) - 1)

\* getRange after the size probe returned: the suffix range, or the TypeError of
\* null.toString() when the probed size is falsy.
ProbedRange(size, load) ==
  IF load > logFileSize(size)
    THEN IF hasSize(size) THEN [error |-> "none", range |-> SuffixRange(logFileSize(size))]
                          ELSE [error |-> "TypeError", range |-> SuffixRange(0)]
    ELSE [error |-> "none", range |-> SuffixRange(load)]

\* Mutant of sendRangeRequest: the 206 branch takes the size from the
\* Content-Length, as the 200 branch does.
sendRangeRequest_SizeFromLength(r, size, must) ==
  IF r.rejected THEN Threw("FetchError", size)
  ELSE IF r.status = 206 THEN
    IF ~r.contentRange.present THEN Threw("MissingHeaderError", size)
    ELSE IF ParseInt2Throws(r.contentRange) THEN Threw("TypeError", size)
    ELSE IF ParseInt2Throws(r.contentLength) THEN Threw("TypeError", size)
    ELSE Returned(r.contentLength.n, r.body)
  ELSE IF r.status = 200 THEN
    IF must THEN Threw("Non206ResponseError", size)
    ELSE IF ParseInt2Throws(r.contentLength) THEN Threw("TypeError", size)
    ELSE Returned(r.contentLength.n, r.body)
  ELSE IF r.status = 416 THEN
    IF ~r.contentRange.present THEN Threw("TypeError", size)
    ELSE Threw("LogFileTruncatedError", size)
  ELSE Threw("UnexpectedServerResponseError", size)

\* Mutant of sendRangeRequest: the 206 branch does not test the Content-Range
\* for absence, and parsing the absent header fails.
sendRangeRequest_NoRangeTest(r, size, must) ==
  IF r.rejected THEN Threw("FetchError", size)
  ELSE IF r.status = 206 THEN
    IF ParseInt2Throws(r.contentRange) THEN Threw("TypeError", size)
    ELSE IF ParseInt2Throws(r.contentLength) THEN Threw("TypeError", r.contentRange.n)
    ELSE Returned(r.contentRange.n, r.body)
  ELSE IF r.status = 200 THEN
    IF must THEN Threw("Non206ResponseError", size)
    ELSE IF ParseInt2Throws(r.contentLength) THEN Threw("TypeError", size)
    ELSE Returned(r.contentLength.n, r.body)
  ELSE IF r.status = 416 THEN
    IF ~r.contentRange.present THEN Threw("TypeError", size)
    ELSE Threw("LogFileTruncatedError", size)
  ELSE Threw("UnexpectedServerResponseError", size)

\* Mutant of sendRangeRequest: the 200 branch leaves the known size as it was.
sendRangeRequest_200KeepsSize(r, size, must) ==
  IF r.rejected THEN Threw("FetchError", size)
  ELSE IF r.status = 206 THEN
    IF ~r.contentRange.present THEN Threw("MissingHeaderError", size)
    ELSE IF ParseInt2Throws(r.contentRange) THEN Threw("TypeError", size)
    ELSE IF ParseInt2Throws(r.contentLength) THEN Threw("TypeError", r.contentRange.n)
    ELSE Returned(r.contentRange.n, r.body)
  ELSE IF r.status = 200 THEN
    IF must THEN Threw("Non206ResponseError", size)
    ELSE IF ParseInt2Throws(r.contentLength) THEN Threw("TypeError", size)
    ELSE Returned(size, r.body)
  ELSE IF r.status = 416 THEN
    IF ~r.contentRange.present THEN Threw("TypeError", size)
    ELSE Threw("LogFileTruncatedError", size)
  ELSE Threw("UnexpectedServerResponseError", size)

\* sendRangeRequest, from the outcome r of its fetch on; size is _logFileSize and
\* must is _mustGet206 when the outcome arrives.
sendRangeRequest(r, size, must) ==
  IF r.rejected THEN Threw("FetchError", size)
  ELSE IF r.status = 206 THEN
    IF ~r.contentRange.present THEN Threw("MissingHeaderError", size)
    ELSE IF ParseInt2Throws(r.contentRange) THEN Threw("TypeError", size)
    ELSE IF ParseInt2Throws(r.contentLength) THEN Threw("TypeError", r.contentRange.n)
    ELSE Returned(r.contentRange.n, r.body)
  ELSE IF r.status = 200 THEN
    IF must THEN Threw("Non206ResponseError", size)
    ELSE IF ParseInt2Throws(r.contentLength) THEN Threw("TypeError", size)
    ELSE Returned(r.contentLength.n, r.body)
  ELSE IF r.status = 416 THEN
    IF ~r.contentRange.present THEN Threw("TypeError", size)  \* null.split
    ELSE Threw("LogFileTruncatedError", size)
  ELSE Threw("UnexpectedServerResponseError", size)

\* data.size < this.logFileSize: a string has no size property, and
\* undefined < n is false for every n.
SizeLess(text, size) == FALSE

\* data.indexOf('\n'), counted from 0; -1 when there is none.
RECURSIVE IndexOfNewline(_, _)
IndexOfNewline(text, from) ==
  IF from >= Len(text) THEN -1
  ELSE IF text[from + 1] = "\n" THEN from
  ELSE IndexOfNewline(text, from + 1)

\* data.substring(start), start counted from 0
Substring(text, start) ==
  IF start >= Len(text) THEN <<>> ELSE SubSeq(text, start + 1, Len(text))

\* Mutant of getLog: a response that arrives while the session is paused is
\* dropped.
getLogMerge_DropsWhenPaused(text, first, load, size, data) ==
  IF paused THEN [error |-> "none", content |-> <<>>, data |-> data]
  ELSE IF first /\ Len(text) > load
    THEN [error |-> "ServerResponseTooLongError", content |-> <<>>, data |-> data]
  ELSE IF first
    THEN [error |-> "none", content |-> text, data |-> text]
    ELSE [error |-> "none", content |-> Substring1(text),
          data |-> StringOf(data) \o Substring1(text)]

\* Mutant of getLog: the anchor byte is appended to the buffer with the rest of
\* the body.
getLogMerge_KeepsAnchor(text, first, load, size, data) ==
  IF first /\ Len(text) > load
    THEN [error |-> "ServerResponseTooLongError", content |-> <<>>, data |-> data]
  ELSE IF first
    THEN [error |-> "none", content |-> text, data |-> text]
    ELSE [error |-> "none", content |-> Substring1(text),
          data |-> StringOf(data) \o text]

\* Mutant of getLog: the length of the first body is held against the total
\* size reported with it, not against loadBytes.
getLogMerge_TooLongAgainstSize(text, first, load, size, data) ==
  IF first /\ Len(text) > logFileSize(size)
    THEN [error |-> "ServerResponseTooLongError", content |-> <<>>, data |-> data]
  ELSE IF first
    THEN [error |-> "none", content |-> text, data |-> text]
    ELSE [error |-> "none", content |-> Substring1(text),
          data |-> StringOf(data) \o Substring1(text)]

\* Mutant of getLog: what it returns on a later load is the body as received,
\* anchor byte included.
getLogMerge_ReportsBody(text, first, load, size, data) ==
  IF first /\ Len(text) > load
    THEN [error |-> "ServerResponseTooLongError", content |-> <<>>, data |-> data]
  ELSE IF first
    THEN [error |-> "none", content |-> text, data |-> text]
    ELSE [error |-> "none", content |-> text,
          data |-> StringOf(data) \o Substring1(text)]

\* getLog, from the text sendRangeRequest returned on: content is newContent,
\* data the value of _logData it leaves.
getLogMerge(text, first, load, size, data) ==
  IF first /\ Len(text) > load
    THEN [error |-> "ServerResponseTooLongError", content |-> <<>>, data |-> data]
  ELSE IF first
    THEN IF SizeLess(text, logFileSize(size))
           THEN LET kept == Substring(text, IndexOfNewline(text, 0) + 1)
                IN  [error |-> "none", content |-> kept, data |-> kept]
           ELSE [error |-> "none", content |-> text, data |-> text]
    ELSE [error |-> "none", content |-> Substring1(text),
          data |-> StringOf(data) \o Substring1(text)]

\* e.constructor.name: MissingHeaderError overrides the static name.
EventNameOf(kind) ==
  IF kind \in {"MissingHeaderError", "MissingContentLengthHeaderError"}
    THEN "missing-header" ELSE kind

Event(name, detail) == [name |-> name, detail |-> detail]
DataAppended(content) == Event("data-appended", content)

\* Mutant of the catch block of poll: the error is emitted as 'error' only.
ErrorEvents_GenericOnly(kind) == <<Event("error", <<kind>>)>>

\* The two emits of the catch block of poll.
ErrorEvents(kind) == <<Event(EventNameOf(kind), <<kind>>), Event("error", <<kind>>)>>

(***************************************************************************)
(* The poller.                                                             *)
(***************************************************************************)
PendingTimers == orphans + (IF _timeout = "pending" THEN 1 ELSE 0)

Remove(seq, i) == SubSeq(seq, 1, i - 1) \o SubSeq(seq, i + 1, Len(seq))

Call(by, did) == [by |-> by, did |-> did]

\* this._timeout = setTimeout(this.poll.bind(this), this.pollInterval)
SetTimeout ==
  /\ _timeout' = "pending"
  /\ orphans' = IF _timeout = "pending" THEN orphans + 1 ELSE orphans
  /\ scheduled' = <<pollInterval>>

\* Mutants of the guard: one flag is not tested.
PollSkips_IgnoresLoading == paused
PollSkips_IgnoresPaused == loading

\* The guard of poll: the cycle is skipped.
PollSkips == paused \/ loading

\* poll's return inside the try: nothing after the try statement runs.
PollSkipped(by) ==
  /\ lastCall' = Call(by, "poll-skipped")
  /\ emitted' = <<>>
  /\ scheduled' = <<>>
  /\ fetched' = <<>>
  /\ UNCHANGED <<_loading, _logFileSize, _logData, _firstLoad, _mustGet206, inflight>>

\* Mutant of getRange: the size is probed at the start of every cycle.
PollStarts_ProbesAlways(by) ==
  /\ _loading' = TRUE
  /\ inflight' = Append(inflight, HeadRequest)
  /\ fetched' = <<HeadRequest>>
  /\ lastCall' = Call(by, "poll-started")
  /\ emitted' = <<>>
  /\ scheduled' = <<>>
  /\ UNCHANGED <<_firstLoad, _mustGet206, _logFileSize, _logData>>

\* Mutant of getRange: a 206 is required from a known size of 1 on.
PollStarts_MustGet206FromOne(by) ==
  /\ _loading' = TRUE
  /\ IF ~hasSize(_logFileSize)
       THEN /\ inflight' = Append(inflight, HeadRequest)
            /\ fetched' = <<HeadRequest>>
            /\ UNCHANGED <<_firstLoad, _mustGet206>>
       ELSE /\ _firstLoad' = FALSE
            /\ _mustGet206' = (logFileSize(_logFileSize) >= 1)
            /\ inflight' = Append(inflight, GetRequest(AnchorRange(_logFileSize)))
            /\ fetched' = <<GetRequest(AnchorRange(_logFileSize))>>
  /\ lastCall' = Call(by, "poll-started")
  /\ emitted' = <<>>
  /\ scheduled' = <<>>
  /\ UNCHANGED <<_logFileSize, _logData>>

\* poll up to its first wait: getLog, getRange and the fetch of requestLogSize
\* or of sendRangeRequest.
PollStarts(by) ==
  /\ _loading' = TRUE
  /\ IF ~hasSize(_logFileSize)
       THEN /\ inflight' = Append(inflight, HeadRequest)
            /\ fetched' = <<HeadRequest>>
            /\ UNCHANGED <<_firstLoad, _mustGet206>>
       ELSE /\ _firstLoad' = FALSE
            /\ _mustGet206' = (logFileSize(_logFileSize) > 1)
            /\ inflight' = Append(inflight, GetRequest(AnchorRange(_logFileSize)))
            /\ fetched' = <<GetRequest(AnchorRange(_logFileSize))>>
  /\ lastCall' = Call(by, "poll-started")
  /\ emitted' = <<>>
  /\ scheduled' = <<>>
  /\ UNCHANGED <<_logFileSize, _logData>>

poll(by) == IF PollSkips THEN PollSkipped(by) ELSE PollStarts(by)

\* Mutant of the catch block: it returns without setting the timer.
PollCatch_NoTimer(kind) ==
  /\ emitted' = ErrorEvents(kind)
  /\ scheduled' = <<>>
  /\ lastCall' = Call("response", "cycle-failed")
  /\ fetched' = <<>>
  /\ UNCHANGED <<_loading, _timeout, orphans>>

\* poll's catch block and the setTimeout after it.
PollCatch(kind) ==
  /\ emitted' = ErrorEvents(kind)
  /\ SetTimeout
  /\ lastCall' = Call("response", "cycle-failed")
  /\ fetched' = <<>>
  /\ UNCHANGED _loading

\* poll after getLog returned content, and the setTimeout after the try.
PollDone(content) ==
  /\ _loading' = FALSE
  /\ emitted' = <<DataAppended(content)>>
  /\ SetTimeout
  /\ lastCall' = Call("response", "cycle-done")
  /\ fetched' = <<>>

(***************************************************************************)
(* The event emitter.  A listener is modelled by its callback; the context *)
(* it may be registered with only selects how the callback is applied.     *)
(***************************************************************************)
EventNames == {"data-appended", "error"}
Callbacks == {"cb1", "cb2"}

ListenerCall(op, event, callback, result, invoked) ==
  [op |-> op, event |-> event, callback |-> callback, result |-> result,
   invoked |-> invoked]
NoListenerCall == ListenerCall("none", "none", "none", FALSE, <<>>)

\* this.listeners(event): the array of the event, created empty when missing.
listeners(event) == _listeners[event]

\* findIndex(listener => listener.callback !== callback), counted from 1;
\* 0 when no listener passes the test.
RECURSIVE FindIndex(_, _, _)
FindIndex(list, callback, from) ==
  IF from > Len(list) THEN 0
  ELSE IF list[from] # callback THEN from
  ELSE FindIndex(list, callback, from + 1)

\* on(event, callback)
on(event, callback) ==
  /\ _listeners' = [_listeners EXCEPT ![event] = Append(listeners(event), callback)]
  /\ listenerCall' = ListenerCall("on", event, callback, FALSE, <<>>)

\* off(event, callback): result is the value returned.
off(event, callback) ==
  LET listenerIndex == FindIndex(listeners(event), callback, 1)
  IN  IF listenerIndex > 0
        THEN /\ _listeners' = [_listeners EXCEPT ![event] = Remove(listeners(event), listenerIndex)]
             /\ listenerCall' = ListenerCall("off", event, callback, TRUE, <<>>)
        ELSE /\ UNCHANGED _listeners
             /\ listenerCall' = ListenerCall("off", event, callback, FALSE, <<>>)

\* emit(event, args): invoked is the callbacks called, in order.
emit(event) ==
  /\ UNCHANGED _listeners
  /\ listenerCall' = ListenerCall("emit", event, "none", FALSE, listeners(event))

(***************************************************************************)
(* A server that honors ranges, over the remote file f.                    *)
(***************************************************************************)
\* The answer to the HEAD request: the length of the file.
HonestHead(f) == Response(200, NoHeader, NumHeader(Len(f)), <<>>)

\* The answer to the range request: '-n' is the last n bytes, 'n-' the bytes
\* from offset n on, with the length of the file as the Content-Range total;
\* 416 when the file has no such byte.
HonestGet(f, range) ==
  IF range.kind = "suffix"
    THEN IF range.n = 0 \/ Len(f) = 0
           THEN Response(416, NumHeader(Len(f)), NoHeader, <<>>)
           ELSE LET n == IF range.n < Len(f) THEN range.n ELSE Len(f)
                IN  Response(206, NumHeader(Len(f)), NumHeader(n),
                             SubSeq(f, Len(f) - n + 1, Len(f)))
    ELSE IF range.n < Len(f)
           THEN Response(206, NumHeader(Len(f)), NumHeader(Len(f) - range.n),
                         SubSeq(f, range.n + 1, Len(f)))
           ELSE Response(416, NumHeader(Len(f)), NoHeader, <<>>)

(***************************************************************************)
(* getLog called by a caller of its own, and not by poll.                  *)
(***************************************************************************)
\* getLog up to its first wait: getRange and the fetch of requestLogSize or of
\* sendRangeRequest.
getLogStarts ==
  /\ IF ~hasSize(_logFileSize)
       THEN /\ inflight' = Append(inflight, HeadRequest)
            /\ fetched' = <<HeadRequest>>
            /\ UNCHANGED <<_firstLoad, _mustGet206>>
       ELSE /\ _firstLoad' = FALSE
            /\ _mustGet206' = (logFileSize(_logFileSize) > 1)
            /\ inflight' = Append(inflight, GetRequest(AnchorRange(_logFileSize)))
            /\ fetched' = <<GetRequest(AnchorRange(_logFileSize))>>
  /\ lastCall' = Call("caller", "getLog-started")
  /\ emitted' = <<>>
  /\ scheduled' = <<>>
  /\ UNCHANGED <<_logFileSize, _logData>>

\* getLog throws to its caller.
getLogThrows ==
  /\ lastCall' = Call("response", "getLog-threw")
  /\ fetched' = <<>>
  /\ emitted' = <<>>
  /\ scheduled' = <<>>

\* getLog returns to its caller.
getLogReturns ==
  /\ lastCall' = Call("response", "getLog-returned")
  /\ fetched' = <<>>
  /\ emitted' = <<>>
  /\ scheduled' = <<>>

(***************************************************************************)
(* The custom element (src/logtail.js, lines 20-200): the merge of a later *)
(* load into its buffer, with the trim the class does not have.            *)
(***************************************************************************)
\* this.logData += data.substring(1), and then, when the buffer is longer than
\* load, logData.substring(logData.indexOf("\n", logData.length - load) + 1).
appendAndTrim(logData, data, load) ==
  LET whole == logData \o Substring1(data)
  IN  IF Len(whole) > load
        THEN Substring(whole, IndexOfNewline(whole, Len(whole) - load) + 1)
        ELSE whole

(***************************************************************************)
(* The values a caller assigns to an option, and the setters' tests.       *)
(***************************************************************************)
JsValue(type, kind, n, s) == [type |-> type, kind |-> kind, n |-> n, s |-> s]
JsUndefined == JsValue("undefined", "none", 0, "")
JsNull == JsValue("object", "null", 0, "")
JsTrue == JsValue("boolean", "true", 1, "")
JsInteger(k) == JsValue("number", "integer", k, "")
JsHalf(k) == JsValue("number", "fraction", k, "")    \* k + 0.5
JsNaN == JsValue("number", "NaN", 0, "")
JsInfinity == JsValue("number", "Infinity", 0, "")
JsString(s) == JsValue("string", "none", 0, s)

Urls == {DefaultUrl, "/other"}

JsValues ==
  {JsUndefined, JsNull, JsTrue, JsNaN, JsInfinity, JsHalf(1), JsString("1")}
    \cup {JsInteger(k) : k \in -1..MaxOption}
    \cup {JsString(s) : s \in Urls}

\* A setter's parameter: its default stands for an assigned undefined.
Parameter(v, default) == IF v = JsUndefined THEN default ELSE v

\* Mutant of IsPositiveInteger: the test v > 0 is left out.
IsPositiveInteger_NoSignTest(v) == v.type = "number" /\ v.kind = "integer"

\* Number.isInteger(v) && !Number.isNaN(v) && v > 0
IsPositiveInteger(v) == v.type = "number" /\ v.kind = "integer" /\ v.n > 0

\* typeof v === 'string'
IsString(v) == v.type = "string"

Assignment(property, value, threw) == [property |-> property, value |-> value, threw |-> threw]
NoAssignment == Assignment("none", JsUndefined, "none")

(***************************************************************************)
(* Actions.                                                                *)
(***************************************************************************)
Config == <<pause, _loadBytes, _pollInterval, _url, assigned, element, file>>

\* The listeners and the record of the last call on them: the poller assigns
\* neither.
Registry == <<_listeners, listenerCall>>

\* An external caller invokes poll().
ExternalPoll ==
  /\ PendingTimers < MaxTimers
  /\ poll("caller")
  /\ received' = <<>>
  /\ UNCHANGED <<Config, Registry, _paused, _timeout, orphans>>

\* A pending timer fires and runs poll.
TimerFires ==
  /\ \/ /\ _timeout = "pending"
        /\ _timeout' = "expired"
        /\ UNCHANGED orphans
     \/ /\ orphans > 0
        /\ orphans' = orphans - 1
        /\ UNCHANGED _timeout
  /\ poll("timer")
  /\ received' = <<>>
  /\ UNCHANGED <<Config, Registry, _paused>>

\* The outcome of the HEAD request arrives: the rest of requestLogSize and of
\* getRange, then the fetch of sendRangeRequest, or poll's catch.
HeadResponse ==
  \E i \in 1..Len(inflight), r \in HeadResponses :
    /\ inflight[i].method = "HEAD"
    /\ LET probe == requestLogSize(r)
           plan == ProbedRange(probe.size, loadBytes)
       IN  IF probe.error # "none"
             THEN /\ PollCatch(probe.error)
                  /\ inflight' = Remove(inflight, i)
                  /\ UNCHANGED <<_logFileSize, _firstLoad, _mustGet206>>
           ELSE IF plan.error # "none"
             THEN /\ _logFileSize' = probe.size
                  /\ PollCatch(plan.error)
                  /\ inflight' = Remove(inflight, i)
                  /\ UNCHANGED <<_firstLoad, _mustGet206>>
           ELSE /\ _logFileSize' = probe.size
                /\ _firstLoad' = TRUE
                /\ _mustGet206' = FALSE
                /\ inflight' = Append(Remove(inflight, i), GetRequest(plan.range))
                /\ fetched' = <<GetRequest(plan.range)>>
                /\ lastCall' = Call("response", "size-probed")
                /\ emitted' = <<>>
                /\ scheduled' = <<>>
                /\ UNCHANGED <<_loading, _timeout, orphans>>
    /\ received' = <<r>>
    /\ UNCHANGED <<Config, Registry, _paused, _logData>>

\* The outcome of the GET request arrives: the rest of sendRangeRequest, of
\* getLog and of poll.
GetResponse ==
  \E i \in 1..Len(inflight), r \in GetResponses :
    /\ inflight[i].method = "GET"
    /\ LET sent == sendRangeRequest(r, _logFileSize, _mustGet206)
           merged == getLogMerge(sent.text, _firstLoad, loadBytes, sent.size, _logData)
       IN  /\ _logFileSize' = sent.size
           /\ IF sent.error # "none"
                THEN PollCatch(sent.error) /\ UNCHANGED _logData
              ELSE IF merged.error # "none"
                THEN PollCatch(merged.error) /\ UNCHANGED _logData
              ELSE /\ Len(merged.data) <= MaxLogData
                   /\ _logData' = merged.data
                   /\ PollDone(merged.content)
    /\ inflight' = Remove(inflight, i)
    /\ received' = <<r>>
    /\ UNCHANGED <<Config, Registry, _paused, _firstLoad, _mustGet206>>

\* set paused(paused): this._paused = !!paused
SetPaused ==
  \E value \in BOOLEAN :
    /\ _paused' = value
    /\ lastCall' = Call("caller", "set-paused")
    /\ emitted' = <<>>
    /\ scheduled' = <<>>
    /\ fetched' = <<>>
    /\ received' = <<>>
    /\ UNCHANGED <<Config, Registry, _loading, _logFileSize, _logData, _firstLoad, _mustGet206,
                   _timeout, orphans, inflight>>

\* clearTimeout(tail._timeout), the way a caller stops the session.
ClearTimeout ==
  /\ _timeout' = IF _timeout = "pending" THEN "expired" ELSE _timeout
  /\ lastCall' = Call("caller", "clearTimeout")
  /\ emitted' = <<>>
  /\ scheduled' = <<>>
  /\ fetched' = <<>>
  /\ received' = <<>>
  /\ UNCHANGED <<Config, Registry, _paused, _loading, _logFileSize, _logData, _firstLoad,
                 _mustGet206, orphans, inflight>>

\* What an assignment to loadBytes, pollInterval or url leaves alone, the
\* listeners apart.
NotConfig == <<_paused, _loading, _logFileSize, _logData, _firstLoad, _mustGet206,
               _timeout, orphans, inflight, lastCall, emitted, scheduled, fetched, received,
               element>>

\* The fields of the class, which the custom element does not have.
NotElement == <<_paused, _loading, _logFileSize, _logData, _firstLoad, _mustGet206,
                _timeout, orphans, inflight, lastCall, emitted, scheduled, fetched, received>>

\* What the calls of on, off and emit leave alone.
Poller == <<pause, _paused, _loading, _logFileSize, _logData, _firstLoad, _mustGet206,
            _loadBytes, _pollInterval, _url, assigned, _timeout, orphans, inflight,
            lastCall, emitted, scheduled, fetched, received, element, file>>

\* A caller registers a listener.
OnCall ==
  \E event \in EventNames, callback \in Callbacks :
    /\ Len(listeners(event)) < MaxListeners
    /\ on(event, callback)
    /\ UNCHANGED Poller

\* A caller removes a listener.
OffCall ==
  \E event \in EventNames, callback \in Callbacks :
    /\ off(event, callback)
    /\ UNCHANGED Poller

\* A caller emits an event.
EmitCall ==
  \E event \in EventNames :
    /\ emit(event)
    /\ UNCHANGED Poller

\* A caller assigns a value to loadBytes.
SetLoadBytes ==
  \E v \in JsValues :
    LET value == Parameter(v, JsInteger(DefaultLoadBytes))
    IN  /\ IF IsPositiveInteger(value)
             THEN _loadBytes' = value.n /\ assigned' = Assignment("loadBytes", v, "none")
             ELSE UNCHANGED _loadBytes /\ assigned' = Assignment("loadBytes", v, "TypeError")
        /\ UNCHANGED <<pause, _pollInterval, _url, Registry, NotConfig, file>>

\* A caller assigns a value to pollInterval.
SetPollInterval ==
  \E v \in JsValues :
    LET value == Parameter(v, JsInteger(DefaultPollInterval))
    IN  /\ IF IsPositiveInteger(value)
             THEN _pollInterval' = value.n /\ assigned' = Assignment("pollInterval", v, "none")
             ELSE UNCHANGED _pollInterval /\ assigned' = Assignment("pollInterval", v, "TypeError")
        /\ UNCHANGED <<pause, _loadBytes, _url, Registry, NotConfig, file>>

\* A caller assigns a value to url.
SetUrl ==
  \E v \in JsValues :
    LET value == Parameter(v, JsString(DefaultUrl))
    IN  /\ IF IsString(value)
             THEN _url' = value.s /\ assigned' = Assignment("url", v, "none")
             ELSE UNCHANGED _url /\ assigned' = Assignment("url", v, "TypeError")
        /\ UNCHANGED <<pause, _loadBytes, _pollInterval, Registry, NotConfig, file>>

\* The custom element merges the text of a response that is not its first
\* load.
ElementAppends ==
  \E data \in Bodies :
    /\ Len(element.logData) + Len(Substring1(data)) <= MaxLogData
    /\ element' = [element EXCEPT !.logData = appendAndTrim(element.logData, data, element.load),
                                  !.data = data]
    /\ UNCHANGED <<pause, _loadBytes, _pollInterval, _url, assigned, Registry, NotElement, file>>

\* The remote file grows by one character.
FileGrows ==
  \E c \in Chars :
    /\ Len(file) < MaxFile
    /\ file' = Append(file, c)
    /\ UNCHANGED <<pause, _loadBytes, _pollInterval, _url, assigned, element, Registry,
                   NotElement>>

\* A caller invokes getLog() and awaits it: none of its calls is in flight.
GetLogCall ==
  /\ inflight = <<>>
  /\ getLogStarts
  /\ received' = <<>>
  /\ UNCHANGED <<Config, Registry, _paused, _loading, _timeout, orphans>>

\* The HEAD request of a getLog() call fails in transport or is answered by
\* the server: the rest of requestLogSize and getRange, then the fetch of
\* sendRangeRequest.
HonestHeadResponse ==
  \E r \in {Rejected, HonestHead(file)} :
    /\ Len(inflight) = 1
    /\ inflight[1].method = "HEAD"
    /\ LET probe == requestLogSize(r)
           plan == ProbedRange(probe.size, loadBytes)
       IN  IF probe.error # "none"
             THEN /\ getLogThrows
                  /\ inflight' = <<>>
                  /\ UNCHANGED <<_logFileSize, _firstLoad, _mustGet206>>
           ELSE IF plan.error # "none"
             THEN /\ _logFileSize' = probe.size
                  /\ getLogThrows
                  /\ inflight' = <<>>
                  /\ UNCHANGED <<_firstLoad, _mustGet206>>
           ELSE /\ _logFileSize' = probe.size
                /\ _firstLoad' = TRUE
                /\ _mustGet206' = FALSE
                /\ inflight' = <<GetRequest(plan.range)>>
                /\ fetched' = <<GetRequest(plan.range)>>
                /\ lastCall' = Call("response", "size-probed")
                /\ emitted' = <<>>
                /\ scheduled' = <<>>
    /\ received' = <<r>>
    /\ UNCHANGED <<Config, Registry, _paused, _loading, _timeout, orphans, _logData>>

\* The range request of a getLog() call fails in transport or is answered by
\* the server: the rest of sendRangeRequest and of getLog.
HonestGetResponse ==
  /\ Len(inflight) = 1
  /\ inflight[1].method = "GET"
  /\ \E r \in {Rejected, HonestGet(file, inflight[1].range)} :
       /\ LET sent == sendRangeRequest(r, _logFileSize, _mustGet206)
              merged == getLogMerge(sent.text, _firstLoad, loadBytes, sent.size, _logData)
          IN  /\ _logFileSize' = sent.size
              /\ IF sent.error # "none"
                   THEN getLogThrows /\ UNCHANGED _logData
                 ELSE IF merged.error # "none"
                   THEN getLogThrows /\ UNCHANGED _logData
                 ELSE _logData' = merged.data /\ getLogReturns
       /\ received' = <<r>>
  /\ inflight' = <<>>
  /\ UNCHANGED <<Config, Registry, _paused, _loading, _timeout, orphans, _firstLoad,
                 _mustGet206>>

\* new LogTail(opts): Object.assign runs the setters of url, loadBytes,
\* pollInterval and debug, and makes 'pause' an own property; no other field
\* is set.
Constructed(opts) ==
  /\ pause = opts.pause
  /\ _loadBytes = opts.loadBytes
  /\ _pollInterval = opts.pollInterval
  /\ _url = opts.url
  /\ assigned = NoAssignment
  /\ _paused = FALSE
  /\ _loading = FALSE
  /\ _logFileSize = UndefinedSize
  /\ _logData = UndefinedData
  /\ _firstLoad = FALSE
  /\ _mustGet206 = FALSE
  /\ _timeout = "undefined"
  /\ orphans = 0
  /\ inflight = <<>>
  /\ lastCall = Call("caller", "constructor")
  /\ emitted = <<>>
  /\ scheduled = <<>>
  /\ fetched = <<>>
  /\ received = <<>>
  /\ _listeners = [event \in EventNames |-> <<>>]
  /\ listenerCall = NoListenerCall

\* The custom element is not in use.
NoElement == [logData |-> <<>>, load |-> DefaultLoadBytes, data |-> <<>>]

defaultOpts ==
  [url |-> DefaultUrl, pause |-> FALSE, loadBytes |-> DefaultLoadBytes,
   pollInterval |-> DefaultPollInterval]

\* Sessions constructed with the default options or with a small loadBytes.
Init ==
  \E load \in {DefaultLoadBytes, SmallLoadBytes} :
    Constructed([defaultOpts EXCEPT !.loadBytes = load]) /\ element = NoElement /\ file = <<>>

Next ==
  \/ ExternalPoll
  \/ TimerFires
  \/ HeadResponse
  \/ GetResponse
  \/ SetPaused

Spec == Init /\ [][Next]_vars

\* The poller with a caller that may also stop it.
NextStop == Next \/ ClearTimeout

SpecStop == Init /\ [][NextStop]_vars

\* The event emitter of a new session, driven by its caller.
NextListeners == OnCall \/ OffCall \/ EmitCall

SpecListeners == Init /\ [][NextListeners]_vars

\* The options of a session constructed with the defaults, assigned by its
\* caller.
InitConfig == Constructed(defaultOpts) /\ element = NoElement /\ file = <<>>

NextConfig == SetLoadBytes \/ SetPollInterval \/ SetUrl

SpecConfig == InitConfig /\ [][NextConfig]_vars

\* The buffer of a custom element after its first load, which is no longer
\* than load, merged with the later loads.
InitElement ==
  /\ Constructed(defaultOpts)
  /\ \E load \in 1..MaxLoad :
       \E logData \in StringsUpTo(load) :
         element = [logData |-> logData, load |-> load, data |-> <<>>]
  /\ file = <<>>

SpecElement == InitElement /\ [][ElementAppends]_vars

\* A caller that calls getLog() time and again, awaiting each call, against a
\* server that honors ranges over a file that only grows; a request may still
\* fail in transport.
NextHonest == FileGrows \/ GetLogCall \/ HonestHeadResponse \/ HonestGetResponse

SpecHonest == Init /\ [][NextHonest]_vars

\* Sessions constructed with the pause option given, true or false.
InitPauseOption ==
  \E option \in BOOLEAN :
    Constructed([defaultOpts EXCEPT !.pause = option]) /\ element = NoElement /\ file = <<>>

SpecPauseOption == InitPauseOption /\ [][Next]_vars

\* The event loop runs every timer that is due, and every fetch settles.
FairSpec ==
  Spec /\ WF_vars(TimerFires) /\ WF_vars(HeadResponse) /\ WF_vars(GetResponse)

(***************************************************************************)
(* Properties.                                                             *)
(***************************************************************************)
PollEnded == lastCall.did \in {"poll-started", "poll-skipped"}
CycleEnded == lastCall.did \in {"cycle-done", "cycle-failed"}
ErrorKind == emitted[2].detail[1]
EndsWith(text, tail) ==
  /\ Len(tail) <= Len(text)
  /\ SubSeq(text, Len(text) - Len(tail) + 1, Len(text)) = tail

\* C1: at most one transport call is in flight at any time; a poll() that
\* starts a cycle finds none in flight, and a poll() invoked while one is in
\* flight issues none.
C1_SingleFlight ==
  /\ Len(inflight) <= 1
  /\ lastCall.did = "poll-started" => (Len(fetched) = 1 /\ inflight = fetched)
  /\ lastCall.did = "poll-skipped" => fetched = <<>>

C1_Witness_PollWhileInFlight ==
  lastCall.did = "poll-skipped" /\ ~_paused /\ Len(inflight) = 1

\* C2: whenever no request of the session is in flight, loading is false, also
\* after a cycle that failed.
C2_LoadingFalseWhenIdle == inflight = <<>> => ~_loading

\* C3: a cycle of the loop (a poll run by the timer) that is skipped because
\* paused is true still schedules the next cycle after pollInterval.
C3_SkippedPollReschedules ==
  (lastCall = Call("timer", "poll-skipped") /\ _paused /\ ~_loading) =>
    scheduled = <<pollInterval>>

\* C4: after a cycle that ends in a malformed response while the session is not
\* paused, a range request is eventually issued again unless a caller
\* intervenes.
C4_PollingContinuesAfterMalformed ==
  (/\ lastCall.did = "cycle-failed"
   /\ ErrorKind \in {"MissingHeaderError", "UnexpectedServerResponseError",
                     "Non206ResponseError", "ServerResponseTooLongError"}
   /\ ~_paused)
  ~> (\/ fetched # <<>> /\ fetched[1].method = "GET"
      \/ lastCall.by = "caller")

\* C5: every cycle that was not skipped, ended by a result or by an error,
\* schedules exactly one next poll, pollInterval milliseconds later, and only
\* when it ends.
C5_CycleReschedulesOnce ==
  /\ CycleEnded => (scheduled = <<pollInterval>> /\ _timeout = "pending")
  /\ lastCall.did \in {"poll-started", "size-probed"} => scheduled = <<>>

C5_Witness_FailedCycleRescheduled ==
  lastCall.did = "cycle-failed" /\ scheduled = <<pollInterval>>

\* C6: a rejected fetch of the range request is reported and leaves the session
\* paused.
C6_TransportFailurePauses ==
  (lastCall.did = "cycle-failed" /\ received = <<Rejected>> /\ ErrorKind = "FetchError") =>
    _paused

\* C7: the response of a request that was in flight when paused became true is
\* still classified, merged and reported, and no poll() invoked while paused
\* is true issues a request.
C7_PauseAtCycleBoundary ==
  /\ (_paused /\ lastCall.by = "response" /\ lastCall.did # "size-probed") =>
       /\ CycleEnded
       /\ lastCall.did = "cycle-failed" =>
            (Len(emitted) = 2 /\ emitted[2].name = "error")
       /\ lastCall.did = "cycle-done" =>
            LET body == received[1].body
                increment == IF _firstLoad THEN body ELSE Substring1(body)
            IN  /\ emitted = <<DataAppended(increment)>>
                /\ EndsWith(_logData, increment)
  /\ (_paused /\ PollEnded) => (lastCall.did = "poll-skipped" /\ fetched = <<>>)

C7_Witness_PausedMidFlight ==
  /\ _paused
  /\ lastCall.did = "cycle-done"
  /\ emitted[1].detail # <<>>

\* C8: a poll() invoked while paused or loading is true starts no cycle, issues
\* no request, emits nothing and leaves loading, the known size and the buffer
\* as they were.
C8_SkippedPollChangesNothing ==
  [][((_paused \/ _loading) /\ lastCall'.did \in {"poll-started", "poll-skipped"}) =>
       /\ lastCall'.did = "poll-skipped"
       /\ fetched' = <<>>
       /\ emitted' = <<>>
       /\ UNCHANGED <<_loading, _logFileSize, _logData, inflight>>]_vars

C8_Witness_PollWhilePaused ==
  lastCall.did = "poll-skipped" /\ _paused /\ ~_loading

\* C9: after a 416 answer to the anchor request planned from the known size n,
\* the next range is not planned from n again: the known size was cleared or
\* reset to another size.
C9_NoStaleSizeAfter416 ==
  [][(/\ Len(inflight) = 1
      /\ inflight[1] = GetRequest(AnchorRange(_logFileSize))
      /\ lastCall'.did = "cycle-failed"
      /\ received' # <<>>
      /\ received'[1].status = 416) =>
       (~hasSize(_logFileSize') \/ AnchorRange(_logFileSize') # inflight[1].range)]_vars

\* C10: every 416 response fails the cycle with LogFileTruncatedError, with or
\* without a Content-Range header.
C10_Every416IsTruncation ==
  (lastCall.did = "cycle-failed" /\ received # <<>> /\ received[1].status = 416) =>
    ErrorKind = "LogFileTruncatedError"

(***************************************************************************)
(* Sizes, the buffer and the increments.                                   *)
(***************************************************************************)
\* The request in flight is the anchor request planned from the known size:
\* the cycle it belongs to follows a successful cycle, which left that size.
AnchorPending ==
  /\ Len(inflight) = 1
  /\ hasSize(_logFileSize)
  /\ inflight[1] = GetRequest(AnchorRange(_logFileSize))

Emits(name) == \E i \in 1..Len(emitted) : emitted[i].name = name

\* C11: of two consecutive successful cycles, the second leaves a known size
\* that is not smaller than the one the first left, unless a truncation was
\* notified between them, whatever the server answers.
C11_SizeMonotoneOrTruncation ==
  [][(AnchorPending /\ _logData # UndefinedData /\ lastCall'.did = "cycle-done") =>
       (_logFileSize' >= _logFileSize \/ Emits("LogFileTruncatedError")')]_vars

\* C12: after the merge of every successful cycle the buffer holds at most
\* loadBytes characters, whatever the cycles and the bodies were.
\* It is stated for the buffers a trim at a line boundary can shorten to
\* loadBytes: those with a line terminator among their last loadBytes characters.
C12_BufferBound ==
  (/\ lastCall.did = "cycle-done"
   /\ \E i \in 1..Len(_logData) : i > Len(_logData) - loadBytes /\ _logData[i] = "\n") =>
    Len(_logData) <= loadBytes

\* kept is whole without a prefix that is empty or ends at a line terminator.
TrimmedAtLine(whole, kept) ==
  \E n \in 0..Len(whole) :
    /\ kept = Substring(whole, n)
    /\ n > 0 => whole[n] = "\n"

\* C13: a successful cycle that is not a first load, answered with body b,
\* returns b without its first byte as the increment and leaves the buffer it
\* found followed by that increment, less at most a prefix that ends at a line
\* terminator; so after k such cycles the buffer is the initial buffer followed
\* by b1[1:], ..., bk[1:], less such a prefix.
C13_NoDoubleAnchorLoss ==
  [][(AnchorPending /\ ~_firstLoad /\ lastCall'.did = "cycle-done") =>
       LET increment == Substring1(received'[1].body)
       IN  /\ emitted' = <<DataAppended(increment)>>
           /\ TrimmedAtLine(_logData \o increment, _logData')]_vars

C13_Witness_IncrementAppended ==
  /\ lastCall.did = "cycle-done"
  /\ ~_firstLoad
  /\ Len(received[1].body) = 2
  /\ Len(_logData) = 3

\* C14: on a first load whose reported total size is larger than the length of
\* the body, the buffer after the merge starts at the first character after the
\* first line terminator of the body.
C14_FirstLoadClipped ==
  (lastCall.did = "cycle-done" /\ _firstLoad /\ _logFileSize > Len(received[1].body)) =>
    LET body == received[1].body
    IN  _logData = Substring(body, IndexOfNewline(body, 0) + 1)

\* A first load just ended successfully: its body is within loadBytes and the
\* total size reported with it is the length of the body.
WholeFileLoaded ==
  /\ lastCall.did = "cycle-done"
  /\ _firstLoad
  /\ Len(received[1].body) <= loadBytes
  /\ _logFileSize = Len(received[1].body)

\* The buffer is the body and the one increment reported is the body.
KeptVerbatim ==
  /\ _logData = received[1].body
  /\ emitted = <<DataAppended(received[1].body)>>

\* The last cycle that ended was such a first load (it left the body as the
\* buffer), and no cycle started since.
AfterWholeFileLoad ==
  ~_loading /\ _firstLoad /\ _logData # UndefinedData /\ _logFileSize = Len(_logData)

\* The cycle that starts is not a first load: it sends the anchor request.
StartsLaterLoad ==
  ~_firstLoad' /\ fetched' = <<GetRequest(AnchorRange(_logFileSize))>>

\* C15: on a first load whose body is within loadBytes and whose
\* reported total size is the length of the body, the buffer becomes the body,
\* the increment reported is the whole body, and the cycle that follows is not
\* a first load.
C15_WholeFileFirstLoad ==
  /\ [](WholeFileLoaded => KeptVerbatim)
  /\ [][(AfterWholeFileLoad /\ lastCall'.did = "poll-started") => StartsLaterLoad]_vars

\* The response r hands its body to getLog: a 206 with a Content-Range and a
\* Content-Length that parse, or a 200 with a Content-Length that parses when
\* a 206 is not required.
DeliversBody(r, must) ==
  /\ ~r.rejected
  /\ \/ r.status = 206 /\ r.contentRange.digits /\ r.contentLength.digits
     \/ r.status = 200 /\ ~must /\ r.contentLength.digits

\* C16: on a first load, a body longer than loadBytes ends the cycle with
\* ServerResponseTooLongError whatever total size comes with it; the buffer is
\* left as it was and no data-appended is emitted.
C16_TooLongPrecedence ==
  [][(/\ Len(inflight) = 1
      /\ inflight[1].method = "GET"
      /\ _firstLoad
      /\ CycleEnded'
      /\ DeliversBody(received'[1], _mustGet206)
      /\ Len(received'[1].body) > loadBytes) =>
       /\ lastCall'.did = "cycle-failed"
       /\ ErrorKind' = "ServerResponseTooLongError"
       /\ _logData' = _logData
       /\ ~Emits("data-appended")']_vars

C16_Witness_TooLongWithEqualTotal ==
  /\ lastCall.did = "cycle-failed"
  /\ _firstLoad
  /\ ErrorKind = "ServerResponseTooLongError"
  /\ Len(received[1].body) = 2
  /\ _logFileSize = 2

\* C17: with known size n, a cycle answered 206 with a body of the anchor byte
\* alone and Content-Range total n leaves the buffer and the known size as they
\* were; so does any number of such cycles.
C17_UnchangedCycleIdempotent ==
  [][(/\ AnchorPending
      /\ CycleEnded'
      /\ received'[1].status = 206
      /\ Len(received'[1].body) = 1
      /\ received'[1].contentRange = NumHeader(_logFileSize)) =>
       UNCHANGED <<_logData, _logFileSize>>]_vars

C17_Witness_AnchorOnly206 ==
  /\ lastCall.did = "cycle-done"
  /\ ~_firstLoad
  /\ received[1].status = 206
  /\ Len(received[1].body) = 1
  /\ received[1].contentRange = NumHeader(2)
  /\ _logFileSize = 2
  /\ Len(_logData) = 2

\* C18: a cycle answered with the anchor byte alone reports no increment: it
\* emits no data-appended, not even one with empty content, and schedules the
\* next cycle as usual.
C18_AnchorOnlyReportsNothing ==
  (lastCall.did = "cycle-done" /\ ~_firstLoad /\ Len(received[1].body) = 1) =>
    (~Emits("data-appended") /\ scheduled = <<pollInterval>>)

Min(a, b) == IF a < b THEN a ELSE b

\* C20: when no size is known, the size probe's answer s (any s >= 0) makes
\* getRange return the suffix range of min(loadBytes, s) bytes, which is then
\* requested; when a size n is known, the range is the open-ended one from
\* n - 1 and no size probe is issued.
C20_RangePlanning ==
  [][/\ (/\ Len(inflight) = 1
         /\ inflight[1].method = "HEAD"
         /\ lastCall'.by = "response"
         /\ received'[1].status = 200
         /\ received'[1].contentLength.digits) =>
          fetched' = <<GetRequest(SuffixRange(Min(loadBytes, received'[1].contentLength.n)))>>
     /\ (hasSize(_logFileSize) /\ lastCall'.did = "poll-started") =>
          fetched' = <<GetRequest(FromRange(_logFileSize - 1))>>]_vars

(***************************************************************************)
(* Classification of the response.                                        *)
(***************************************************************************)
\* The outcome of the range request of the cycle arrives in this step.
RangeAnswered ==
  /\ Len(inflight) = 1
  /\ inflight[1].method = "GET"
  /\ CycleEnded'

FailedWith(kind) == lastCall.did = "cycle-failed" /\ ErrorKind = kind

\* C21: a 200 answer to a cycle planned from a known size above 1 fails the
\* cycle with Non206ResponseError, emitted under that name, which is neither
\* the missing-header nor the unexpected-status one, and leaves the buffer as
\* it was; a 200 answer to a cycle planned with no known size or from size 1 is
\* not refused: when its Content-Length parses, that becomes the known size.
C21_MustGet206Rule ==
  [][(RangeAnswered /\ received'[1].status = 200) =>
       IF ~_firstLoad /\ _logFileSize > 1
         THEN /\ FailedWith("Non206ResponseError")'
              /\ emitted'[1].name = "Non206ResponseError"
              /\ UNCHANGED <<_logData, _logFileSize>>
         ELSE /\ ~FailedWith("Non206ResponseError")'
              /\ received'[1].contentLength.digits =>
                   _logFileSize' = received'[1].contentLength.n]_vars

C21_Witness_200Refused ==
  /\ FailedWith("Non206ResponseError")
  /\ received[1].status = 200
  /\ _logFileSize = 2

\* The body text reached getLog: the cycle succeeded, or failed in getLog.
TextReturned ==
  lastCall.did = "cycle-done" \/ FailedWith("ServerResponseTooLongError")

\* C22: a 206 without Content-Range fails with MissingHeaderError, a status
\* other than 200, 206 and 416 with UnexpectedServerResponseError, a rejected
\* fetch with FetchError, and the body text is returned only for a 206 whose
\* Content-Range parses or a 200 where a 206 is not required.
C22_ClassificationTotal ==
  [][RangeAnswered =>
       LET r == received'[1]
       IN  /\ r.rejected => FailedWith("FetchError")'
           /\ (~r.rejected /\ r.status = 206 /\ ~r.contentRange.present) =>
                FailedWith("MissingHeaderError")'
           /\ (~r.rejected /\ r.status \notin {200, 206, 416}) =>
                FailedWith("UnexpectedServerResponseError")'
           /\ TextReturned' =>
                /\ ~r.rejected
                /\ \/ r.status = 206 /\ r.contentRange.digits
                   \/ r.status = 200 /\ ~_mustGet206]_vars

C22_Witness_MissingContentRange ==
  /\ FailedWith("MissingHeaderError")
  /\ received[1].status = 206
  /\ ~received[1].contentRange.present
  /\ received[1].contentLength.digits

\* C23: once sendRangeRequest has returned, the known size is the total of the
\* Content-Range header when the status was 206 and the Content-Length when it
\* was 200, and the text it returned, which getLog merges, is the body.
C23_SizeFromResponse ==
  TextReturned =>
    LET r == received[1]
    IN  /\ r.status = 206 => _logFileSize = r.contentRange.n
        /\ r.status = 200 => _logFileSize = r.contentLength.n
        /\ lastCall.did = "cycle-done" =>
             emitted[1].detail = IF _firstLoad THEN r.body ELSE Substring1(r.body)

C23_Witness_SizeFromContentRange ==
  /\ lastCall.did = "cycle-done"
  /\ received[1].status = 206
  /\ received[1].contentRange.n = 2
  /\ received[1].contentLength.n = 1
  /\ _logFileSize = 2

(***************************************************************************)
(* First loads.                                                            *)
(***************************************************************************)
\* No cycle of the session has succeeded yet: the buffer was never assigned.
NoSuccessYet == _logData = UndefinedData

\* getRange, called in this state, takes its first-load branch.
PlansFirstLoad == ~hasSize(_logFileSize)

\* C24: every cycle planned before the first successful cycle is planned as a
\* first load: a cycle that starts then begins with the size probe, and a
\* cycle that failed then, after its size probe succeeded too, leaves a state
\* from which the next cycle is planned as a first load.
C24_FirstLoadUntilSuccess ==
  /\ (lastCall.did = "poll-started" /\ NoSuccessYet) => fetched = <<HeadRequest>>
  /\ (lastCall.did = "cycle-failed" /\ NoSuccessYet) => PlansFirstLoad

\* C25: once a cycle of the session has succeeded, no cycle that starts later
\* is a first load, whatever size the server reported, 0 included: it sends
\* the anchor request and no size probe.
C25_FirstLoadOnlyOnce ==
  [][(~NoSuccessYet /\ lastCall'.did = "poll-started") =>
       (~_firstLoad' /\ fetched' # <<HeadRequest>>)]_vars

ErrorClasses ==
  {"HeadRequestError", "FetchError", "MissingHeaderError", "Non206ResponseError",
   "LogFileTruncatedError", "UnexpectedServerResponseError",
   "ServerResponseTooLongError", "TypeError"}

\* C27: a cycle in which getLog threw an error e emits e once on the event
\* named by e's class, then once on 'error', and nothing else: no
\* data-appended.
C27_FailureReportedTwice ==
  lastCall.did = "cycle-failed" =>
    \E kind \in ErrorClasses :
      emitted = <<Event(EventNameOf(kind), <<kind>>), Event("error", <<kind>>)>>

C27_Witness_ProbeFailureReported ==
  /\ lastCall.did = "cycle-failed"
  /\ emitted = <<Event("HeadRequestError", <<"HeadRequestError">>),
                 Event("error", <<"HeadRequestError">>)>>

(***************************************************************************)
(* Stopping the session.                                                   *)
(***************************************************************************)
\* The caller has just stopped the session.
Stopped == lastCall.did = "clearTimeout"

\* C28: once the session is stopped, the poller starts no cycle, issues no
\* request and sets no timer, also when a request was in flight at the stop;
\* stopping a stopped session changes nothing.  It is stated for the step that
\* follows the stop and is not a call of the caller: a timer firing or a
\* response arriving.
C28_StopCancelsPolling ==
  /\ [][(Stopped /\ lastCall'.by # "caller") =>
          /\ lastCall'.did # "poll-started"
          /\ fetched' = <<>>
          /\ scheduled' = <<>>]_vars
  /\ [][(Stopped /\ Stopped') =>
          UNCHANGED <<_timeout, orphans, inflight, _loading, _paused, _logFileSize,
                      _logData>>]_vars

(***************************************************************************)
(* The pause option.                                                       *)
(***************************************************************************)
\* C29: the first poll() of a session constructed with the pause option true
\* issues no request, and that of a session constructed with it false (the
\* default) issues one.
C29_InitialPausedIsConfigured ==
  [][(lastCall.did = "constructor" /\ lastCall'.did \in {"poll-started", "poll-skipped"}) =>
       IF pause THEN fetched' = <<>> ELSE fetched' # <<>>]_vars

(***************************************************************************)
(* Listeners.                                                              *)
(***************************************************************************)
Occurrences(list, callback) ==
  Cardinality({i \in 1..Len(list) : list[i] = callback})

\* C30: off(event, callback) removes that listener and no other: it returns
\* true exactly when the callback was registered for the event; a callback
\* registered once is registered no longer, so that emit does not invoke it;
\* the other listeners of the event, and those of the other events, stay as
\* they were; and emit invokes the listeners registered for its event.
C30_OffRemovesThatListener ==
  [][/\ listenerCall'.op = "off" =>
          LET event == listenerCall'.event
              callback == listenerCall'.callback
              Other(c) == c # callback
          IN  /\ listenerCall'.result = (Occurrences(_listeners[event], callback) > 0)
              /\ Occurrences(_listeners[event], callback) = 1 =>
                   Occurrences(_listeners'[event], callback) = 0
              /\ SelectSeq(_listeners'[event], Other) = SelectSeq(_listeners[event], Other)
              /\ \A e \in EventNames \ {event} : _listeners'[e] = _listeners[e]
     /\ listenerCall'.op = "emit" =>
          listenerCall'.invoked = _listeners[listenerCall'.event]]_vars

(***************************************************************************)
(* The size probe.                                                         *)
(***************************************************************************)
\* C31: the size probe reports its failures by kind: an OK response without
\* Content-Length fails the cycle with MissingContentLengthHeaderError, a
\* non-OK status with UnexpectedServerResponseError, a network failure with
\* HeadRequestError; an OK response with Content-Length gives that size.
C31_ProbeFailuresByKind ==
  [][(/\ Len(inflight) = 1
      /\ inflight[1].method = "HEAD"
      /\ lastCall'.by = "response") =>
       LET r == received'[1]
           FailsAs(kind) == lastCall'.did = "cycle-failed" /\ ErrorKind' = kind
       IN  /\ r.rejected => FailsAs("HeadRequestError")
           /\ (Ok(r) /\ ~r.contentLength.present) => FailsAs("MissingContentLengthHeaderError")
           /\ (~r.rejected /\ ~Ok(r)) => FailsAs("UnexpectedServerResponseError")
           /\ (Ok(r) /\ r.contentLength.present) => _logFileSize' = r.contentLength.n]_vars

(***************************************************************************)
(* The options.                                                            *)
(***************************************************************************)
OptionValue(property) ==
  CASE property = "loadBytes" -> _loadBytes
    [] property = "pollInterval" -> _pollInterval
    [] property = "url" -> _url

OptionValueAfter(property) ==
  CASE property = "loadBytes" -> _loadBytes'
    [] property = "pollInterval" -> _pollInterval'
    [] property = "url" -> _url'

DefaultOf(property) ==
  CASE property = "loadBytes" -> 30720
    [] property = "pollInterval" -> 1000
    [] property = "url" -> "/logs"

\* The value is one the property's documentation allows: a positive integer
\* for loadBytes and pollInterval, a string for url.
AllowedFor(property, v) ==
  IF property = "url" THEN v.type = "string"
  ELSE v.type = "number" /\ v.kind = "integer" /\ v.n > 0

RawValue(v) == IF v.type = "string" THEN v.s ELSE v.n

OptionsWellFormed ==
  /\ _loadBytes \in Nat \ {0}
  /\ _pollInterval \in Nat \ {0}
  /\ _url \in STRING
  /\ assigned = NoAssignment => \A property \in {"loadBytes", "pollInterval", "url"} :
                                  OptionValue(property) = DefaultOf(property)

OtherOptionsKept(property) ==
  \A other \in {"loadBytes", "pollInterval", "url"} \ {property} :
    OptionValueAfter(other) = OptionValue(other)

\* C32 as stated: loadBytes and pollInterval are always positive integers
\* (30720 and 1000 when never set) and url a string; an assignment of an
\* allowed value sets it, an assignment of any other value throws TypeError
\* and leaves the previous value unchanged.
C32_ConfigurationValid ==
  /\ []OptionsWellFormed
  /\ [][LET a == assigned'
        IN  /\ OtherOptionsKept(a.property)
            /\ IF AllowedFor(a.property, a.value)
                 THEN a.threw = "none" /\ OptionValueAfter(a.property) = RawValue(a.value)
                 ELSE a.threw = "TypeError" /\ OptionValueAfter(a.property) = OptionValue(a.property)]_vars

\* C32, amended: loadBytes and pollInterval are always positive integers (30720
\* and 1000 when never set) and url a string; an assignment of an allowed
\* value sets it, an assignment of undefined sets the default (30720, 1000,
\* '/logs') without throwing, and an assignment of any other value throws
\* TypeError and leaves the previous value unchanged.
C32_ConfigurationValidOrDefault ==
  /\ []OptionsWellFormed
  /\ [][LET a == assigned'
        IN  /\ OtherOptionsKept(a.property)
            /\ IF AllowedFor(a.property, a.value)
                 THEN a.threw = "none" /\ OptionValueAfter(a.property) = RawValue(a.value)
               ELSE IF a.value = JsUndefined
                 THEN a.threw = "none" /\ OptionValueAfter(a.property) = DefaultOf(a.property)
               ELSE a.threw = "TypeError" /\ OptionValueAfter(a.property) = OptionValue(a.property)]_vars

C32_Witness_RejectedKeepsPrevious ==
  /\ assigned = Assignment("loadBytes", JsInteger(0), "TypeError")
  /\ _loadBytes = MaxOption
  /\ _url # DefaultUrl

(***************************************************************************)
(* The custom element's buffer.                                            *)
(***************************************************************************)
\* C33: when the buffer with the increment appended is longer than load, the
\* custom element keeps a suffix of it that begins immediately after a line
\* terminator and is no longer than load, whatever the buffer holds.
C33_LineBoundaryTrim ==
  [][LET whole == element.logData \o Substring1(element'.data)
         kept == element'.logData
     IN  Len(whole) > element.load =>
           /\ Len(kept) <= element.load
           /\ \E n \in 1..Len(whole) : whole[n] = "\n" /\ kept = Substring(whole, n)]_vars

(***************************************************************************)
(* The poll loop.                                                          *)
(***************************************************************************)
\* C34: at most one next-cycle timer is pending at any time, and it is the one
\* _timeout refers to, whatever poll() calls and timer firings went before.
C34_SinglePollLoop ==
  /\ orphans = 0
  /\ orphans + (IF _timeout = "pending" THEN 1 ELSE 0) <= 1

(***************************************************************************)
(* Failed cycles.                                                          *)
(***************************************************************************)
\* The known size, as the getter reports it, when the cycle whose request is
\* in flight started: none (0 here) for a cycle that probed the size, and the
\* size still known for a cycle that did not.
KnownSizeAtCycleStart ==
  IF Len(inflight) = 1 /\ inflight[1].method = "GET" /\ _firstLoad
    THEN 0
    ELSE logFileSize(_logFileSize)

\* C35: a cycle that ends in an error, of whatever kind, leaves the known file
\* size and the buffer as they were when the cycle started.
C35_StateUnchangedOnError ==
  [][lastCall'.did = "cycle-failed" =>
       /\ _logData' = _logData
       /\ logFileSize(_logFileSize') = KnownSizeAtCycleStart]_vars

(***************************************************************************)
(* The buffer against the remote file.                                     *)
(***************************************************************************)
\* C36: against a server that honors ranges over a file that only grows, the
\* buffer, whenever it has content, is a contiguous suffix of the first
\* knownFileSize bytes of the remote file, after any sequence of cycles,
\* successful or failed.
C36_NoGapInTail ==
  (_logData # UndefinedData /\ _logData # <<>>) =>
    /\ logFileSize(_logFileSize) <= Len(file)
    /\ EndsWith(SubSeq(file, 1, logFileSize(_logFileSize)), _logData)

====
